---- MODULE Spec2Model ----
(***************************************************************************)
(* Model of plugin/avroschema/avroschema.go: the avroschema generator      *)
(* plugin.  The plugin walks the messages of a file, builds an envelope    *)
(* (record) per opted-in message out of avroField nodes, memoises nodes in *)
(* the map p.seen, renders the envelope with schema() and prints the       *)
(* generated function.                                                     *)
(*                                                                         *)
(* Go pointers are node ids (indices into `nodes`), 0 is the nil interface.*)
(* A []avroField is the sequence of its elements: the only slice that is   *)
(* ever appended to is an envelope's, append never rewrites an element     *)
(* below len, so the slice header copied at line 216 is a snapshot.        *)
(* Names are sequences of one-character strings so that CamelCase and      *)
(* strings.Split are computed, not assumed.                                *)
(***************************************************************************)
EXTENDS Integers, Sequences, FiniteSets, TLC

VARIABLES
    pc,        \* position of the plugin: new, idle, file, msg, aborted
    failure,   \* why the run aborted ("none" while it has not)
    seen,      \* p.seen: map from name to node id
    nodes,     \* the heap of avroField values, indexed by node id
    fileNo,    \* number of Generate calls so far; stands for p.fileName
    fileMsgs,  \* messages of the current file iterated so far: [tn, opt]
    cur,       \* the envelope under construction in processMessage (0: none)
    decl,      \* message.Field of the current message, as far as processed
    out,       \* what was printed with p.P: [file, name, schema]
    cacheLog,  \* history of the writes to p.seen: [key, node, replaced]
    refs,      \* history of getComplexField calls
    last,      \* the latest processField call: [field, ret, fail, made]
    nMsgs,     \* messages iterated in the whole run
    nFields    \* fields processed in the whole run

vars == <<pc, failure, seen, nodes, fileNo, fileMsgs, cur, decl, out,
          cacheLog, refs, last, nMsgs, nFields>>

\* ------------------------------------------------------------------ bounds
MaxMsgs == 2
MaxFields == 2

\* ----------------------------------------------- descriptor.FieldDescriptorProto_Type
TYPE_DOUBLE == 1
TYPE_FLOAT == 2
TYPE_INT64 == 3
TYPE_UINT64 == 4
TYPE_INT32 == 5
TYPE_FIXED64 == 6
TYPE_FIXED32 == 7
TYPE_BOOL == 8
TYPE_STRING == 9
TYPE_GROUP == 10
TYPE_MESSAGE == 11
TYPE_BYTES == 12
TYPE_UINT32 == 13
TYPE_ENUM == 14
TYPE_SFIXED32 == 15
TYPE_SFIXED64 == 16
TYPE_SINT32 == 17
TYPE_SINT64 == 18
\* a tag outside the declared enumeration
TYPE_UNDECLARED == 19

Nil == 0

\* The tags getAvroTypeForProtobufType has a case for.
PrimitiveTags ==
    {TYPE_DOUBLE, TYPE_FLOAT, TYPE_INT64, TYPE_UINT64, TYPE_INT32, TYPE_UINT32,
     TYPE_FIXED64, TYPE_FIXED32, TYPE_BOOL, TYPE_STRING, TYPE_SFIXED32,
     TYPE_SFIXED64, TYPE_SINT32, TYPE_SINT64, TYPE_BYTES}

getAvroTypeForProtobufType(t) ==
    CASE t = TYPE_DOUBLE -> "double"
      [] t = TYPE_FLOAT -> "float"
      [] t = TYPE_INT64 -> "long"
      [] t = TYPE_UINT64 -> "long"
      [] t = TYPE_INT32 -> "int"
      [] t = TYPE_UINT32 -> "int"
      [] t = TYPE_FIXED64 -> "long"
      [] t = TYPE_FIXED32 -> "int"
      [] t = TYPE_BOOL -> "boolean"
      [] t = TYPE_STRING -> "string"
      [] t = TYPE_SFIXED32 -> "int"
      [] t = TYPE_SFIXED64 -> "long"
      [] t = TYPE_SINT32 -> "int"
      [] t = TYPE_SINT64 -> "long"
      [] t = TYPE_BYTES -> "bytes"
      [] OTHER -> "nil"

\* ------------------------------------------------------------------- names
Lowers ==
    <<"a","b","c","d","e","f","g","h","i","j","k","l","m",
      "n","o","p","q","r","s","t","u","v","w","x","y","z">>
Uppers ==
    <<"A","B","C","D","E","F","G","H","I","J","K","L","M",
      "N","O","P","Q","R","S","T","U","V","W","X","Y","Z">>
Digits == {"0","1","2","3","4","5","6","7","8","9"}

isASCIILower(c) == \E i \in 1..Len(Lowers) : Lowers[i] = c
isASCIIDigit(c) == c \in Digits
ToUpper(c) == Uppers[CHOOSE i \in 1..Len(Lowers) : Lowers[i] = c]

\* Index of the last character of the run of lower-case letters after s[i].
RECURSIVE LowerRunEnd(_, _)
LowerRunEnd(s, i) ==
    IF i + 1 <= Len(s) /\ isASCIILower(s[i + 1]) THEN LowerRunEnd(s, i + 1) ELSE i

RECURSIVE CamelFrom(_, _, _)
CamelFrom(s, i, t) ==
    IF i > Len(s) THEN t
    ELSE LET c == s[i] IN
         IF c = "_" /\ i + 1 <= Len(s) /\ isASCIILower(s[i + 1])
         THEN CamelFrom(s, i + 1, t)
         ELSE IF isASCIIDigit(c)
         THEN CamelFrom(s, i + 1, Append(t, c))
         ELSE LET up == IF isASCIILower(c) THEN ToUpper(c) ELSE c
                  j == LowerRunEnd(s, i)
              IN CamelFrom(s, j + 1, Append(t, up) \o SubSeq(s, i + 1, j))

\* generator.CamelCase
CamelCase(s) ==
    IF s = <<>> THEN <<>>
    ELSE IF s[1] = "_" THEN CamelFrom(s, 2, <<"X">>)
    ELSE CamelFrom(s, 1, <<>>)

\* strings.Join(elem, sep)
RECURSIVE Join(_, _)
Join(elem, sep) ==
    IF elem = <<>> THEN <<>>
    ELSE IF Len(elem) = 1 THEN elem[1]
    ELSE elem[1] \o sep \o Join(Tail(elem), sep)

\* generator.CamelCaseSlice
CamelCaseSlice(elem) == CamelCase(Join(elem, <<"_">>))

\* splits[len(splits)-1] of strings.Split(s, "."): what follows the last dot.
RECURSIVE LastSplit(_)
LastSplit(s) ==
    IF \A i \in 1..Len(s) : s[i] # "." THEN s
    ELSE LastSplit(Tail(s))

\* ------------------------------------------------------------ descriptors
Package == <<"p">>

\* Message.TypeName() of the message types fields may refer to.
MsgTypes ==
    { << <<"F","o","o">> >>, << <<"B","a","r">> >>, << <<"B","a","z">> >> }

\* Those of them that carry the avro schema option in the file declaring them.
OptedTypes == { << <<"F","o","o">> >>, << <<"B","a","r">> >> }

\* The enums a field may refer to, with their value names.
EnumTypes == { << <<"S","t">> >> }
EnumValues(tn) == <<"NEW", "SHIPPED">>

\* FieldDescriptorProto.TypeName of a reference: fully qualified, leading dot.
QualifiedName(tn) == <<".">> \o Package \o <<".">> \o Join(tn, <<".">>)

NoType == <<>>

\* One field descriptor: name, type tag, label, type_name.
Field(name, typ, repeated, typeName) ==
    [name |-> name, typ |-> typ, repeated |-> repeated, typeName |-> typeName]

\* The field descriptors a message is built from.  Scalars and message
\* references come under every field name; the shapes whose name reaches
\* nothing but the node's own name come under one.
nameFoo == <<"f","o","o">>
nameId == <<"i","d">>
FieldNames == {nameFoo, nameId}

FieldInputs ==
    {Field(n, TYPE_INT64, FALSE, NoType) : n \in FieldNames}
    \cup {Field(n, TYPE_MESSAGE, FALSE, QualifiedName(tn)) :
             n \in FieldNames, tn \in MsgTypes}
    \cup {Field(nameId, TYPE_INT64, TRUE, NoType),
          Field(nameId, TYPE_MESSAGE, TRUE, QualifiedName(<< <<"F","o","o">> >>)),
          Field(nameId, TYPE_ENUM, FALSE, QualifiedName(<< <<"S","t">> >>)),
          Field(nameId, TYPE_GROUP, FALSE, NoType),
          Field(nameId, TYPE_UNDECLARED, FALSE, NoType),
          Field(nameId, TYPE_UNDECLARED, TRUE, NoType)}

\* -------------------------------------------------------------------- nodes
Node(kind, name, typ, typeName, fields, symbols, namespace) ==
    [kind |-> kind, name |-> name, typ |-> typ, typeName |-> typeName,
     fields |-> fields, symbols |-> symbols, namespace |-> namespace]

EmptyMap == [k \in {} |-> Nil]

MapPut(m, k, v) == [x \in DOMAIN m \cup {k} |-> IF x = k THEN v ELSE m[x]]

Init ==
    /\ pc = "new"
    /\ failure = "none"
    /\ seen = EmptyMap
    /\ nodes = <<>>
    /\ fileNo = 0
    /\ fileMsgs = <<>>
    /\ cur = Nil
    /\ decl = <<>>
    /\ out = <<>>
    /\ cacheLog = <<>>
    /\ refs = <<>>
    /\ last = <<>>
    /\ nMsgs = 0
    /\ nFields = 0

\* Init(g): the only place p.seen is made.
PluginInit ==
    /\ pc = "new"
    /\ pc' = "idle"
    /\ seen' = EmptyMap
    /\ UNCHANGED <<failure, nodes, fileNo, fileMsgs, cur, decl, out, cacheLog,
                   refs, last, nMsgs, nFields>>

\* ------------------------------------------------------------- processField
\* What one call of processField does: the node it returns (Nil for the nil
\* interface), how it fails, the nodes it allocates, its writes to p.seen and
\* the getComplexField call it makes.
Result(ret, fail, new, puts, ref) ==
    [ret |-> ret, fail |-> fail, new |-> new, puts |-> puts, ref |-> ref]

NextId == Len(nodes) + 1

\* generator.GetFieldName: the Go name of the field.  It asks GoType for the
\* field's Go type first, which fails the run on a tag it has no case for.
GetFieldName(field) == CamelCase(field.name)
GoTypeFails(field) == field.typ \notin TYPE_DOUBLE..TYPE_SINT64

getSimpleAvroField(field) ==
    IF GoTypeFails(field) THEN Result(Nil, "unknownType", <<>>, <<>>, <<>>)
    ELSE Result(NextId, "none",
                <<Node("simple", GetFieldName(field),
                       getAvroTypeForProtobufType(field.typ), <<>>, <<>>, <<>>, 0)>>,
                <<>>, <<>>)

getArrayField(field) ==
    IF GoTypeFails(field) THEN Result(Nil, "unknownType", <<>>, <<>>, <<>>)
    ELSE Result(NextId, "none",
                <<Node("array", GetFieldName(field),
                       getAvroTypeForProtobufType(field.typ), <<>>, <<>>, <<>>, 0)>>,
                <<>>, <<>>)

\* The key of the cache lookup in getComplexField (lines 206-207).
LookupKey(field) == LastSplit(CamelCase(field.typeName))

\* A nested record stored under the name of the type it stands for.
MissKeyByType(field) == LookupKey(field)

\* The key a newly made nested record is stored under (line 234).
MissKey(field) == CamelCase(field.name)

\* The fields a complexField made from a cached envelope carries (line 216).
WrappedFields(envelope) == nodes[envelope].fields

getComplexField(field) ==
    LET typeName == LookupKey(field)
        Ref(hit, entry, created) ==
            <<[file |-> fileNo, owner |-> cur, typeName |-> typeName,
               hit |-> hit, entry |-> entry, created |-> created]>>
    IN IF typeName \in DOMAIN seen
       THEN LET cached == seen[typeName] IN
            IF nodes[cached].kind = "envelope"
            THEN Result(NextId, "none",
                        <<Node("complex", CamelCase(field.name), "", typeName,
                               WrappedFields(cached), <<>>, 0)>>,
                        <<>>, Ref(TRUE, cached, FALSE))
            ELSE IF nodes[cached].kind = "complex"
            THEN Result(cached, "none", <<>>, <<>>, Ref(TRUE, cached, FALSE))
            ELSE Result(Nil, "cacheConsistency", <<>>, <<>>, Ref(TRUE, cached, FALSE))
       ELSE Result(NextId, "none",
                   <<Node("complex", CamelCase(field.name), "", typeName,
                          <<>>, <<>>, 0)>>,
                   <<[key |-> MissKey(field), node |-> NextId]>>,
                   Ref(FALSE, NextId, TRUE))

\* An enum node that is shared through the cache under its type's name.
getEnumFieldCached(field) ==
    LET tn == CHOOSE e \in EnumTypes : QualifiedName(e) = field.typeName
    IN Result(NextId, "none",
              <<Node("enum", field.name, "", LastSplit(field.typeName), <<>>,
                     EnumValues(tn), 0)>>,
              <<[key |-> LastSplit(field.typeName), node |-> NextId]>>, <<>>)

getEnumField(field) ==
    LET tn == CHOOSE e \in EnumTypes : QualifiedName(e) = field.typeName
    IN Result(NextId, "none",
              <<Node("enum", field.name, "", LastSplit(field.typeName), <<>>,
                     EnumValues(tn), 0)>>,
              <<>>, <<>>)

processField(field) ==
    IF field.repeated THEN getArrayField(field)
    ELSE IF field.typ \in PrimitiveTags THEN getSimpleAvroField(field)
    ELSE IF field.typ = TYPE_MESSAGE THEN getComplexField(field)
    ELSE IF field.typ = TYPE_ENUM THEN getEnumField(field)
    ELSE IF field.typ = TYPE_GROUP THEN Result(Nil, "none", <<>>, <<>>, <<>>)
    ELSE Result(Nil, "unknownType", <<>>, <<>>, <<>>)

\* ------------------------------------------------------------------ schema()
\* A nested record that expands the type it refers to when it is rendered:
\* the fields of the cached envelope of that name, as they are by then.
FieldsFromCache(id) ==
    LET tn == nodes[id].typeName IN
    IF tn \in DOMAIN seen /\ nodes[seen[tn]].kind = "envelope"
    THEN nodes[seen[tn]].fields
    ELSE nodes[id].fields

\* The fields complexField.schema ranges over (line 58).
complexFieldFields(id) == nodes[id].fields

Quote(str) == <<"\"", str, "\"">>

Rendered(st, text) == [st |-> st, text |-> text]

SetMin(S) == CHOOSE x \in S : \A y \in S : x <= y

\* schema() of node id.  A call on the nil interface panics.  `fuel` is the
\* nesting depth left: the caller passes one more than the number of nodes, so
\* running out of it means a node lies below itself and the Go recursion
\* never returns.
RECURSIVE schema(_, _)
schema(id, fuel) ==
    IF id = Nil THEN Rendered("panic", <<>>)
    ELSE IF fuel = 0 THEN Rendered("diverge", <<>>)
    ELSE LET n == nodes[id] IN
         CASE n.kind \in {"envelope", "complex"} ->
                LET fs == IF n.kind = "envelope" THEN n.fields
                          ELSE complexFieldFields(id)
                    subs == [i \in 1..Len(fs) |-> schema(fs[i], fuel - 1)]
                    bad == {i \in 1..Len(fs) : subs[i].st # "ok"}
                IN IF bad # {} THEN Rendered(subs[SetMin(bad)].st, <<>>)
                   ELSE Rendered("ok",
                            <<[form |-> IF n.kind = "envelope" THEN "record"
                                        ELSE "nested",
                               name |-> n.name,
                               typeName |-> n.typeName,
                               namespace |-> n.namespace,
                               fields |-> [i \in 1..Len(fs) |-> subs[i].text]]>>)
           [] n.kind = "simple" ->
                Rendered("ok", <<[form |-> "simple", name |-> n.name, typ |-> n.typ]>>)
           [] n.kind = "array" ->
                Rendered("ok", <<[form |-> "array", name |-> n.name, items |-> n.typ]>>)
           [] n.kind = "enum" ->
                Rendered("ok", <<[form |-> "enum", name |-> n.name,
                                  typeName |-> n.typeName,
                                  symbols |-> [i \in 1..Len(n.symbols) |->
                                                 Quote(n.symbols[i])]]>>)

\* ------------------------------------------------------------------- actions
DeclaredIn(msgs) == {msgs[i].tn : i \in 1..Len(msgs)}
NamesOf(fields) == {fields[i].name : i \in 1..Len(fields)}

RECURSIVE PutAll(_, _)
PutAll(m, puts) ==
    IF puts = <<>> THEN m
    ELSE PutAll(MapPut(m, puts[1].key, puts[1].node), Tail(puts))

\* Generate(file), up to the loop over file.Messages().  Files are taken
\* while the run has a message left to iterate.
GenerateBegin ==
    /\ pc = "idle"
    /\ nMsgs < MaxMsgs
    /\ pc' = "file"
    /\ fileNo' = fileNo + 1
    /\ fileMsgs' = <<>>
    /\ cur' = Nil
    /\ decl' = <<>>
    /\ UNCHANGED <<failure, seen, nodes, out, cacheLog, refs,
                   last, nMsgs, nFields>>

\* The loop of Generate on a message without the avro schema option.
SkipMessage ==
    /\ pc = "file"
    /\ nMsgs < MaxMsgs
    /\ fileMsgs' = Append(fileMsgs, [tn |-> <<>>, opt |-> FALSE])
    /\ nMsgs' = nMsgs + 1
    /\ UNCHANGED <<pc, failure, seen, nodes, fileNo, cur, decl, out, cacheLog,
                   refs, last, nFields>>

\* createMessageStub -> processMessage, up to its loop over message.Field.
ProcessMessageBegin(tn) ==
    /\ pc = "file"
    /\ nMsgs < MaxMsgs
    /\ tn \notin DeclaredIn(fileMsgs)
    /\ LET key == CamelCaseSlice(tn) IN
        /\ nodes' = Append(nodes, Node("envelope", key, "record", <<>>, <<>>, <<>>, fileNo))
        /\ seen' = MapPut(seen, key, NextId)
        /\ cacheLog' = Append(cacheLog,
               [key |-> key, node |-> NextId, replaced |-> key \in DOMAIN seen])
        /\ cur' = NextId
    /\ decl' = <<>>
    /\ fileMsgs' = Append(fileMsgs, [tn |-> tn, opt |-> TRUE])
    /\ nMsgs' = nMsgs + 1
    /\ pc' = "msg"
    /\ UNCHANGED <<failure, fileNo, out, refs, last, nFields>>

\* One iteration of the loop of processMessage.
ProcessFieldStep(field) ==
    /\ pc = "msg"
    /\ nFields < MaxFields
    /\ field.name \notin NamesOf(decl)
    /\ LET r == processField(field) IN
        /\ last' = <<[field |-> field, ret |-> r.ret, fail |-> r.fail,
                      made |-> Len(r.new)]>>
        /\ refs' = refs \o r.ref
        /\ IF r.fail # "none"
           THEN /\ pc' = "aborted"
                /\ failure' = r.fail
                /\ UNCHANGED <<seen, nodes, cacheLog>>
           ELSE /\ nodes' = [(nodes \o r.new) EXCEPT
                               ![cur].fields = Append(nodes[cur].fields, r.ret)]
                /\ seen' = PutAll(seen, r.puts)
                /\ cacheLog' = cacheLog \o
                     [i \in 1..Len(r.puts) |->
                        [key |-> r.puts[i].key, node |-> r.puts[i].node,
                         replaced |-> r.puts[i].key \in DOMAIN seen]]
                /\ UNCHANGED <<pc, failure>>
    /\ decl' = Append(decl, field)
    /\ nFields' = nFields + 1
    /\ UNCHANGED <<fileNo, fileMsgs, cur, out, nMsgs>>

\* message.GetName()
GetName(tn) == tn[Len(tn)]

\* processMessage returns the envelope; the rest of createMessageStub:
\* schema.schema() and the p.P calls.
EmitStub ==
    /\ pc = "msg"
    /\ LET r == schema(cur, Len(nodes) + 1) IN
        IF r.st = "ok"
        THEN /\ out' = Append(out,
                    [file |-> fileNo, name |-> GetName(fileMsgs[Len(fileMsgs)].tn),
                     node |-> cur, schema |-> r.text])
             /\ pc' = "file"
             /\ UNCHANGED failure
        ELSE /\ pc' = "aborted"
             /\ failure' = IF r.st = "panic" THEN "nilField" ELSE "hang"
             /\ UNCHANGED out
    /\ UNCHANGED <<seen, nodes, fileNo, fileMsgs, cur, decl, cacheLog, refs,
                   last, nMsgs, nFields>>

\* Generate returns.  A file declares at least one message.
GenerateEnd ==
    /\ pc = "file"
    /\ fileMsgs # <<>>
    /\ pc' = "idle"
    /\ UNCHANGED <<failure, seen, nodes, fileNo, fileMsgs, cur, decl, out,
                   cacheLog, refs, last, nMsgs, nFields>>

Next ==
    \/ PluginInit
    \/ GenerateBegin
    \/ SkipMessage
    \/ \E tn \in OptedTypes : ProcessMessageBegin(tn)
    \/ \E field \in FieldInputs : ProcessFieldStep(field)
    \/ EmitStub
    \/ GenerateEnd


\* ------------------------------------------------------------------- claims
Record == nodes[cur].fields

IsGroup(f) == ~f.repeated /\ f.typ = TYPE_GROUP
IsNested(f) == ~f.repeated /\ f.typ = TYPE_MESSAGE

\* C1: two sibling messages of one file that each refer to the same third
\* message type share one cache entry: the second reference hits the entry
\* the first one used or made and adds none.
SiblingsShareCacheEntry ==
    \A i \in 1..Len(refs) : \A j \in 1..Len(refs) :
        ( /\ i < j
          /\ refs[i].file = refs[j].file
          /\ refs[i].owner # refs[j].owner
          /\ refs[i].typeName = refs[j].typeName
          /\ refs[i].typeName # nodes[refs[i].owner].name
          /\ refs[i].typeName # nodes[refs[j].owner].name )
        => ( /\ refs[j].hit
             /\ refs[j].entry = refs[i].entry
             /\ ~refs[j].created )

IsSelfReference(f) == IsNested(f) /\ LookupKey(f) = nodes[cur].name

GenerateStartsWithEmptyCache ==
    (pc = "file" /\ fileMsgs = <<>>) => DOMAIN seen = {}

\* C4: a group field adds no entry to its record, nil or other, and the
\* record renders without a failure.
GroupFieldOmitted ==
    (cur # Nil /\ failure \notin {"unknownType", "cacheConsistency"}) =>
        /\ \A i \in 1..Len(Record) : Record[i] # Nil
        /\ Len(Record) = Cardinality({i \in 1..Len(decl) : ~IsGroup(decl[i])})
        /\ failure # "nilField"

\* The tags the code hands to the Type Mapper, or to no case at all, without
\* the Type Mapper knowing them.
Unrecognized(f) ==
    \/ f.repeated /\ f.typ \notin PrimitiveTags
    \/ ~f.repeated /\ f.typ \notin PrimitiveTags \cup {TYPE_MESSAGE, TYPE_ENUM, TYPE_GROUP}

\* C5: a field whose tag the Type Mapper does not know, repeated or not,
\* aborts the synthesis with an unknown-type failure and yields no node.
UnknownTagAborts ==
    \A k \in 1..Len(last) :
        Unrecognized(last[k].field) =>
            /\ last[k].fail = "unknownType"
            /\ last[k].ret = Nil
            /\ last[k].made = 0

\* The name the node made for a field carries.
NodeNameFor(f) == IF ~f.repeated /\ f.typ = TYPE_ENUM THEN f.name ELSE CamelCase(f.name)

\* C6: a record built from fields of distinct names has no two nodes of one
\* name, and its nodes stand in declaration order.
RecordNamesDistinctInOrder ==
    (cur # Nil /\ \A i, j \in 1..Len(decl) : i # j => decl[i].name # decl[j].name) =>
        /\ \A i, j \in 1..Len(Record) :
              (i < j /\ Record[i] # Nil /\ Record[j] # Nil)
                 => nodes[Record[i]].name # nodes[Record[j]].name
        /\ \A i \in 1..Len(Record) :
              Record[i] # Nil => nodes[Record[i]].name = NodeNameFor(decl[i])

\* C7: no write to the cache replaces an entry.
NoCacheKeyWrittenTwice ==
    \A i \in 1..Len(cacheLog) : ~cacheLog[i].replaced

OptedNames ==
    LET RECURSIVE pick(_)
        pick(i) == IF i > Len(fileMsgs) THEN <<>>
                   ELSE IF fileMsgs[i].opt
                        THEN <<GetName(fileMsgs[i].tn)>> \o pick(i + 1)
                        ELSE pick(i + 1)
    IN pick(1)

PrintedNames ==
    LET RECURSIVE pick(_)
        pick(i) == IF i > Len(out) THEN <<>>
                   ELSE IF out[i].file = fileNo
                        THEN <<out[i].name>> \o pick(i + 1)
                        ELSE pick(i + 1)
    IN pick(1)

\* C8: the output of a file is all or nothing: after a failure nothing of
\* the file has been printed, and a file that ends without one has exactly
\* one schema per opted-in message, in declaration order.
OutputAllOrNothing ==
    /\ pc = "aborted" => PrintedNames = <<>>
    /\ (pc = "idle" /\ fileNo > 0) => PrintedNames = OptedNames

\* C9: a nested record made on a cache miss has no fields, is stored under
\* the camel-cased name of the field that refers to it, and never gets fields.
MissNodeStaysEmpty ==
    \A i \in 1..Len(cacheLog) :
        nodes[cacheLog[i].node].kind = "complex" =>
            /\ nodes[cacheLog[i].node].fields = <<>>
            /\ cacheLog[i].key = nodes[cacheLog[i].node].name

\* A nested record was made on a miss, and the type it refers to was later
\* synthesized as a message of its own, with a field.
MissNodeOutlivesSynthesis ==
    \E i \in 1..Len(cacheLog) : \E e \in 1..Len(nodes) :
        /\ nodes[cacheLog[i].node].kind = "complex"
        /\ nodes[e].kind = "envelope"
        /\ e > cacheLog[i].node
        /\ nodes[e].name = nodes[cacheLog[i].node].typeName
        /\ nodes[e].fields # <<>>
        /\ pc = "file"

\* C10: every cache entry is an envelope or a complexField, and the lookup of
\* getComplexField never meets anything else.
CacheHoldsOnlyRecords ==
    /\ \A k \in DOMAIN seen : nodes[seen[k]].kind \in {"envelope", "complex"}
    /\ failure # "cacheConsistency"

\* The cache holds an envelope and a complexField, and a lookup has come
\* past the envelope test to the complexField one.
BothShapesCached ==
    /\ \E i \in 1..Len(refs) : refs[i].hit /\ nodes[refs[i].entry].kind = "complex"
    /\ \E k \in DOMAIN seen : nodes[seen[k]].kind = "envelope"
    /\ \E k \in DOMAIN seen : nodes[seen[k]].kind = "complex"

Spec == Init /\ [][Next]_vars
====
